---- MODULE Spec2Model ----
(***************************************************************************)
(* Model of cloze.py: the whole-word masking helpers of DataMangler, the   *)
(* predict_iterator generator and the driver main.                         *)
(*                                                                         *)
(* A subword token is a sequence of one-character strings, so that         *)
(* str.startswith, slicing, concatenation and str.replace are modelled by  *)
(* what they do.  A Python list is a sequence; list indices stay 0-based   *)
(* in mask selections, as in the source.                                   *)
(***************************************************************************)
EXTENDS Integers, Sequences, FiniteSets, TLC

\* ------------------------------------------------------------------ bounds
MaxLen == 3

MaxWords == 10

MaxMasks == 4

MaxStarLen == 2

MaxFiles == 2

MaxLines == 2

MaxCap == 1

\* the other --min_len and --max_len of the runs, beside the defaults
LowMinLen == 1

HighMaxLen == 511

\* ------------------------------------------------------- program constants
\* random_mask: "if len(sent) > 512 - 2"
MaxSeqLen == 512

\* random_mask: p=0.15, as the fraction PNum / PDen
PNum == 15

PDen == 100

\* predict_masked: torch.narrow(..., -1, 0, 5)
TopK == 5

\* argparser: --min_len default=5, --max_len default=50
DefaultMinLen == 5

DefaultMaxLen == 50

\* ------------------------------------------------------------------ tokens
CONT == <<"#", "#">>

MARK == <<"*", "*">>

MASK == <<"[", "M", "A", "S", "K", "]">>

CLS == <<"[", "C", "L", "S", "]">>

SEP == <<"[", "S", "E", "P", "]">>

SPACE == <<" ">>

TokA == <<"a">>

TokB == <<"b">>

TokC == <<"#", "#", "c">>

TokD == <<"#", "#", "d">>

TokStar == <<"*">>

\* ------------------------------------------------------- string primitives
\* A for loop over lo..hi: Body(state, i) is one iteration.  The range is
\* split in halves so that a loop of several hundred iterations is evaluated
\* at logarithmic depth; the iterations run in order, lo first.
RECURSIVE ForRange(_, _, _, _)
ForRange(Body(_, _), state, lo, hi) ==
    IF lo > hi THEN state
    ELSE IF lo = hi THEN Body(state, lo)
    ELSE LET mid  == (lo + hi) \div 2
             left == ForRange(Body, state, lo, mid)
         IN  IF Len(<<left>>) = 1 THEN ForRange(Body, left, mid + 1, hi) ELSE state

\* str.startswith
StartsWith(s, prefix) ==
    /\ Len(s) >= Len(prefix)
    /\ SubSeq(s, 1, Len(prefix)) = prefix

\* s[k:] for a 0-based k
DropFirstOffByOne(s, k) == SubSeq(s, k, Len(s))

DropFirst(s, k) == SubSeq(s, k + 1, Len(s))

\* sep.join(strs)
Join(strs, sep) ==
    LET Body(out, i) == IF i = 1 THEN strs[i] ELSE out \o sep \o strs[i]
    IN  ForRange(Body, <<>>, 1, Len(strs))

\* str.replace(old, new) for a non-empty old: the occurrences of old are
\* taken left to right and do not overlap
Replace(s, old, new) ==
    LET n == Len(s)
        m == Len(old)
        Body(st, i) ==
            IF st.skip > 0 THEN [st EXCEPT !.skip = @ - 1]
            ELSE IF i + m - 1 <= n /\ \A d \in 1..m : s[i + d - 1] = old[d]
            THEN [out |-> st.out \o new, skip |-> m - 1]
            ELSE [out |-> Append(st.out, s[i]), skip |-> 0]
    IN  ForRange(Body, [out |-> <<>>, skip |-> 0], 1, n).out

\* predicted.pop(0)[0]: the rank-1 candidate of the first prediction list
Rank2(candidates) == candidates[2]

Rank1(candidates) == candidates[1]

\* x in list
InList(x, list) == \E k \in 1..Len(list) : list[k] = x

\* the Python value None, for the functions that return a list or None
None == [isNone |-> TRUE, list |-> <<>>]

Some(list) == [isNone |-> FALSE, list |-> list]

\* ---------------------------------------------------------- glue_tokenized
\* tokenized_words[-1] on an empty list raises IndexError, which ends the
\* loop.
glue_tokenized(tokenized) ==
    LET Body(st, i) ==
            LET subword == tokenized[i]
                started == IF ~StartsWith(subword, CONT)
                           THEN Append(st.words, <<>>)
                           ELSE st.words
            IN  IF st.raised THEN st
                ELSE IF Len(started) = 0 THEN [raised |-> TRUE, words |-> <<>>]
                ELSE [raised |-> FALSE,
                      words |-> [started EXCEPT ![Len(started)] = Append(@, subword)]]
    IN  ForRange(Body, [raised |-> FALSE, words |-> <<>>], 1, Len(tokenized))

\* ------------------------------------------------------------- random_mask
\* int(round(x)) for the non-negative x = num / den: Python rounds halves to
\* the even neighbour.
PyTruncate(num, den) == num \div den

PyRound(num, den) ==
    LET q == num \div den
        r == num % den
    IN  IF 2 * r > den \/ (2 * r = den /\ q % 2 = 1) THEN q + 1 ELSE q

\* random.sample(range(n), k): every list of k distinct indices of 0..n-1
Sample(n, k) ==
    {s \in [1..k -> 0..(n - 1)] : \A i, j \in 1..k : i # j => s[i] # s[j]}

\* The values random_mask(sent) can return.
random_mask(sent) ==
    IF Len(sent) > MaxSeqLen - 2 THEN {None}
    ELSE LET num_tokens == PyRound(Len(sent) * PNum, PDen)
         IN  IF num_tokens = 0 THEN {None}
             ELSE {Some(indices) : indices \in Sample(Len(sent), num_tokens)}

\* --------------------------------------------------------------- mask_sent
mask_sent_first_piece(sent, mask_indices) ==
    LET Word(masked_sentence, i) ==
            LET Subword(out, j) ==
                    IF InList(i - 1, mask_indices) /\ j = 1 THEN Append(out, MASK)
                    ELSE Append(out, sent[i][j])
            IN  ForRange(Subword, masked_sentence, 1, Len(sent[i]))
    IN  ForRange(Word, <<>>, 1, Len(sent))

mask_sent(sent, mask_indices) ==
    LET Word(masked_sentence, i) ==
            LET Subword(out, j) ==
                    IF InList(i - 1, mask_indices) THEN Append(out, MASK)
                    ELSE Append(out, sent[i][j])
            IN  ForRange(Subword, masked_sentence, 1, Len(sent[i]))
    IN  ForRange(Word, <<>>, 1, Len(sent))

\* ---------------------------------------------------------- my_detokenizer
\* new_sent[len(new_sent) - 1] on an empty list is new_sent[-1] and raises
\* IndexError.
my_detokenizer(sent) ==
    LET Body(st, i) ==
            LET tok == sent[i]
                new_sent == st.words
            IN  IF st.raised THEN st
                ELSE IF StartsWith(tok, CONT)
                THEN IF Len(new_sent) = 0 THEN [raised |-> TRUE, words |-> <<>>]
                     ELSE [raised |-> FALSE,
                           words |-> [new_sent EXCEPT ![Len(new_sent)] =
                                         @ \o DropFirst(tok, 2)]]
                ELSE IF StartsWith(tok, MARK \o CONT)
                THEN IF Len(new_sent) = 0 THEN [raised |-> TRUE, words |-> <<>>]
                     ELSE [raised |-> FALSE,
                           words |-> [new_sent EXCEPT ![Len(new_sent)] =
                                         @ \o MARK \o DropFirst(tok, 4)]]
                ELSE [raised |-> FALSE, words |-> Append(new_sent, tok)]
        merged == ForRange(Body, [raised |-> FALSE, words |-> <<>>], 1, Len(sent))
    IN  IF merged.raised THEN [raised |-> TRUE, text |-> <<>>]
        ELSE [raised |-> FALSE,
              text |-> Replace(Replace(Join(merged.words, SPACE), MARK \o MARK, <<>>),
                               MARK \o SPACE \o MARK, SPACE)]

\* ------------------------------------------------------------- unmask_sent
\* predicted is the caller's list: pop(0) removes its head, and pop on an
\* empty list raises IndexError.  rest is what the call leaves of the list.
unmask_sent(sent, mask_indices, predicted) ==
    LET Word(state, i) ==
            LET Subword(st, j) ==
                    IF st.raised THEN st
                    ELSE IF InList(i - 1, mask_indices)
                    THEN IF Len(st.rest) = 0 THEN [st EXCEPT !.raised = TRUE]
                         ELSE LET p0 == Rank1(st.rest[1])
                                  p1 == IF j = 1 THEN MARK \o p0 ELSE p0
                                  p2 == IF j = Len(sent[i]) THEN p1 \o MARK ELSE p1
                              IN  [raised |-> FALSE,
                                   tokens |-> Append(st.tokens, p2),
                                   rest |-> Tail(st.rest)]
                    ELSE [st EXCEPT !.tokens = Append(@, sent[i][j])]
            IN  ForRange(Subword, state, 1, Len(sent[i]))
        filled == ForRange(Word, [raised |-> FALSE, tokens |-> <<>>, rest |-> predicted],
                           1, Len(sent))
        detok  == my_detokenizer(filled.tokens)
    IN  IF filled.raised \/ detok.raised
        THEN [raised |-> TRUE, text |-> <<>>, rest |-> filled.rest]
        ELSE [raised |-> FALSE, text |-> detok.text, rest |-> filled.rest]

\* -------------------------------------------------------- compare_subwords
compare_subwords(glued_tokenized, predicted, mask_idx) ==
    LET Word(state, i) ==
            LET Subword(st, j) ==
                    IF st.raised THEN st
                    ELSE IF Len(st.rest) = 0 THEN [st EXCEPT !.raised = TRUE]
                    ELSE LET pred == Rank1(st.rest[1])
                         IN  [raised |-> FALSE,
                              correct |-> IF glued_tokenized[i][j] = pred
                                          THEN st.correct + 1 ELSE st.correct,
                              rest |-> Tail(st.rest)]
            IN  IF InList(i - 1, mask_idx)
                THEN ForRange(Subword, state, 1, Len(glued_tokenized[i]))
                ELSE state
    IN  ForRange(Word, [raised |-> FALSE, correct |-> 0, rest |-> predicted],
                 1, Len(glued_tokenized))

\* predict_iterator: sum([len(glued[mi]) for mi in mask_index])
total_masked(glued_tokenized, mask_idx) ==
    LET Body(sum, k) == sum + Len(glued_tokenized[mask_idx[k] + 1])
    IN  ForRange(Body, 0, 1, Len(mask_idx))

\* ---------------------------------------------------------- predict_masked
\* The oracle's vocabulary, and the rankings it can return for one masked
\* position: TopK candidates, rank 1 first, pairwise distinct.
Vocab == <<TokA, TokC, TokStar, TokB, TokD, MASK>>

Ranked(first) == [r \in 1..TopK |-> Vocab[((first + r - 2) % Len(Vocab)) + 1]]

CandLists == {Ranked(1), Ranked(2), Ranked(3)}

\* tokens = ['[CLS]'] + sent + ['[SEP]']
oracle_input(sent) == <<CLS>> \o sent \o <<SEP>>

\* target_indices: the positions of the mask marker in the submitted tokens
target_indices(tokens) == {i \in 1..Len(tokens) : tokens[i] = MASK}

\* The answers of the model for m masked positions: one ranking per
\* position.  Beyond MaxMasks positions only the answers that repeat one
\* ranking are drawn.
Answers(m) ==
    IF m <= MaxMasks THEN [1..m -> CandLists]
    ELSE {[k \in 1..m |-> c] : c \in CandLists}

\* The values predict_masked(sent) can return: None when the model raises
\* RuntimeError, otherwise one ranking per mask marker, left to right.
predict_masked(sent) ==
    {None} \cup
    {Some(answer) : answer \in Answers(Cardinality(target_indices(oracle_input(sent))))}

\* =================================================================== state
VARIABLES
    \* locals of predict_iterator (and of the helper calls of FnSpec)
    tokenized,        \* bert_model.tokenizer.tokenize(sentence)
    glued,            \* glue_tokenized(tokenized_sentence)
    mask_index,       \* random_mask(glued): None or a list of word indices
    masked_sentence,  \* mask_sent(glued, mask_index)
    predicted,        \* predict_masked(masked_sentence); unmask_sent pops it
    supplied,         \* the prediction lists as the oracle returned them
    correct_,         \* the record's correct_subwords
    total_,           \* the record's total_subwords
    unmasked,         \* the record's unmask_sent(...) text, or that it raised
    fpc,              \* position of FnSpec
    \* DataMangler
    sentences,        \* self.sentences
    max_eval_sentences,
    si,               \* how many of self.sentences the loop has taken
    counter,
    \* main
    input_files,      \* sorted(input_files), each file as its lines
    min_len,          \* args.min_len
    max_len,          \* args.max_len
    max_sentences,    \* args.max_sentences
    fi,               \* how many input files the loop has taken
    correct_subwords,
    total_subwords,
    total_accuracy,   \* a fraction <<numerator, denominator>>
    accuracy,         \* the last file's accuracy, a fraction
    final_accuracy,   \* the printed final figure, a fraction
    pc,               \* position of main
    \* observations of the run
    records,          \* records predict_iterator has yielded for this file
    oracle_calls,     \* calls of predict_masked for this file
    submitted,        \* length of the last token list given to the model
    file_correct,     \* correct subwords of this file's records alone
    file_total,       \* masked subwords of this file's records alone
    outcome,          \* how the last iteration of predict_iterator ended
    own               \* <<file_correct, file_total>> of each file done

locals == <<tokenized, glued, mask_index, masked_sentence, predicted, supplied,
            correct_, total_, unmasked>>

mangler == <<sentences, max_eval_sentences, si, counter>>

driver == <<input_files, min_len, max_len, max_sentences, fi, correct_subwords, total_subwords,
            total_accuracy, accuracy, final_accuracy, pc>>

observed == <<records, oracle_calls, submitted, file_correct, file_total, outcome, own>>

vars == <<locals, fpc, mangler, driver, observed>>

NoText == [raised |-> FALSE, text |-> <<>>]

LocalsInit ==
    /\ glued = <<>>
    /\ mask_index = None
    /\ masked_sentence = <<>>
    /\ predicted = None
    /\ supplied = <<>>
    /\ correct_ = 0
    /\ total_ = 0
    /\ unmasked = NoText

ManglerInit ==
    /\ sentences = <<>>
    /\ max_eval_sentences = 0
    /\ si = 0
    /\ counter = 0

MainInit ==
    /\ fi = 0
    /\ correct_subwords = 0
    /\ total_subwords = 0
    /\ total_accuracy = <<0, 1>>
    /\ accuracy = <<0, 1>>
    /\ final_accuracy = <<0, 1>>

ObservedInit ==
    /\ records = 0
    /\ oracle_calls = 0
    /\ submitted = 0
    /\ file_correct = 0
    /\ file_total = 0
    /\ outcome = "none"
    /\ own = <<>>

\* ============================================= the helpers, one call each
\* Token lists the helpers are applied to: every list of at most MaxLen
\* tokens of Alphabet (a word, a continuation piece, a literal mask marker),
\* every list of at most MaxStarLen tokens of StarAlphabet (a word that is
\* the boundary marker's character), and lists of one repeated word up to
\* MaxWords words and of MaxSeqLen - 1 words.
Alphabet == {TokA, TokC, MASK}

StarAlphabet == {TokA, TokC, TokStar}

FlatInputs ==
    UNION {[1..n -> Alphabet] : n \in 0..MaxLen}
    \cup UNION {[1..n -> StarAlphabet] : n \in 0..MaxStarLen}

LongInputs ==
    {[k \in 1..n |-> TokA] : n \in ((MaxLen + 1)..MaxWords) \cup {MaxSeqLen - 1}}

\* the mask selections over n words: every set of word indices, listed in
\* ascending and in descending order
Ascending(S) ==
    [k \in 1..Cardinality(S) |-> CHOOSE x \in S : Cardinality({y \in S : y < x}) = k - 1]

Descending(S) ==
    [k \in 1..Cardinality(S) |-> CHOOSE x \in S : Cardinality({y \in S : y > x}) = k - 1]

Selections(n) == UNION {{Ascending(S), Descending(S)} : S \in SUBSET (0..(n - 1))}

FnInit ==
    /\ tokenized \in FlatInputs \cup LongInputs
    /\ fpc = "glue"
    /\ LocalsInit
    /\ ManglerInit
    /\ MainInit
    /\ input_files = <<>>
    /\ min_len = 0
    /\ max_len = 0
    /\ max_sentences = 0
    /\ pc = "off"
    /\ ObservedInit

FnRest == UNCHANGED <<mangler, driver, observed>>

\* glued = glue_tokenized(tokenized)
FnGlue ==
    /\ fpc = "glue"
    /\ LET r == glue_tokenized(tokenized)
       IN  /\ glued' = r.words
           /\ fpc' = IF r.raised THEN "glue_raised" ELSE "mask"
    /\ UNCHANGED <<tokenized, mask_index, masked_sentence, predicted, supplied,
                   correct_, total_, unmasked>>
    /\ FnRest

\* mask_index = random_mask(glued)
FnRandomMask ==
    /\ fpc = "mask"
    /\ \E r \in random_mask(glued) :
          /\ mask_index' = r
          /\ fpc' = IF r.isNone THEN "refused" ELSE "sampled"
    /\ UNCHANGED <<tokenized, glued, masked_sentence, predicted, supplied,
                   correct_, total_, unmasked>>
    /\ FnRest

\* masked_sentence = mask_sent(glued, mask_index), for the selection that
\* random_mask returned or, on a short sentence, for any selection
FnMaskSent ==
    /\ \/ /\ fpc = "sampled"
          /\ mask_index' = mask_index
       \/ /\ fpc = "mask"
          /\ Len(tokenized) <= MaxLen
          /\ \E sel \in Selections(Len(glued)) : mask_index' = Some(sel)
    /\ masked_sentence' = mask_sent(glued, mask_index'.list)
    /\ fpc' = "masked"
    /\ UNCHANGED <<tokenized, glued, predicted, supplied, correct_, total_, unmasked>>
    /\ FnRest

\* The prediction lists handed to compare_subwords and unmask_sent: what
\* predict_masked(masked_sentence) returns when the model answers.
FnPredictions == {r.list : r \in {q \in predict_masked(masked_sentence) : ~q.isNone}}

\* compare_subwords(glued, copy.copy(predicted), mask_index) and the sum of
\* the masked words' lengths
FnCompare ==
    /\ fpc = "masked"
    /\ \E answer \in FnPredictions :
          LET r == compare_subwords(glued, answer, mask_index.list)
          IN  /\ supplied' = answer
              /\ predicted' = Some(answer)
              /\ correct_' = r.correct
              /\ total_' = total_masked(glued, mask_index.list)
              /\ fpc' = IF r.raised THEN "compare_raised" ELSE "compared"
    /\ UNCHANGED <<tokenized, glued, mask_index, masked_sentence, unmasked>>
    /\ FnRest

\* unmask_sent(glued, mask_index, predicted, mark=True)
FnUnmask ==
    /\ fpc = "masked"
    /\ \E answer \in FnPredictions :
          LET r == unmask_sent(glued, mask_index.list, answer)
          IN  /\ supplied' = answer
              /\ unmasked' = [raised |-> r.raised, text |-> r.text]
              /\ predicted' = Some(r.rest)
              /\ fpc' = IF r.raised THEN "unmask_raised" ELSE "unmasked"
    /\ UNCHANGED <<tokenized, glued, mask_index, masked_sentence, correct_, total_>>
    /\ FnRest

FnNext == FnGlue \/ FnRandomMask \/ FnMaskSent \/ FnCompare \/ FnUnmask

FnSpec == FnInit /\ [][FnNext]_vars

\* ============================================== main and predict_iterator
\* The lines of the input files.  A line is named by what it is; Tokenize is
\* what bert_model.tokenizer.tokenize returns for it and Words what
\* len(line.split(" ")) is.  The tokenizer never starts a sentence with a
\* continuation piece.
Repeat(tok, n) == [k \in 1..n |-> tok]

Tokenize(sentence) ==
    CASE sentence = "three"    -> Repeat(TokA, 3)
      [] sentence = "five"     -> <<TokA, TokA, TokC, TokA, TokA, TokA>>
      [] sentence = "long510"  -> Repeat(TokA, 5) \o Repeat(TokC, MaxSeqLen - 7)
      [] sentence = "long511"  -> Repeat(TokA, 5) \o Repeat(TokC, MaxSeqLen - 6)
      [] sentence = "words511" -> Repeat(TokA, MaxSeqLen - 1)

Words(line) ==
    CASE line = "three"    -> 3
      [] line = "five"     -> 5
      [] line = "long510"  -> 5
      [] line = "long511"  -> 5
      [] line = "words511" -> MaxSeqLen - 1

ShortLines == {"three", "five"}

LongLines == {"long510", "long511", "words511"}

\* The input directories: at most MaxFiles files of at most MaxLines short
\* lines each, and the directories of one file that holds one long line.
ShortFiles == UNION {[1..n -> ShortLines] : n \in 0..MaxLines}

Directories ==
    UNION {[1..n -> ShortFiles] : n \in 0..MaxFiles}
    \cup {<<<<line>>>> : line \in LongLines}

\* read_sentences before the shuffle: the lines whose word count is neither
\* under min_len nor over max_len
Qualifying(lines, lo, hi) ==
    SelectSeq(lines, LAMBDA line : ~(Words(line) < lo \/ Words(line) > hi))

\* random.shuffle(sentences): every order of the list
Shuffles(list) ==
    {[k \in 1..Len(list) |-> list[perm[k]]] : perm \in Permutations(1..Len(list))}

read_sentences(lines, lo, hi) == Shuffles(Qualifying(lines, lo, hi))

\* Fractions <<numerator, denominator>> stand for the floats of main.
RECURSIVE Gcd(_, _)
Gcd(a, b) == IF b = 0 THEN a ELSE Gcd(b, a % b)

Frac(n, d) == LET g == Gcd(n, d) IN <<n \div g, d \div g>>

FracAdd(x, y) == Frac(x[1] * y[2] + y[1] * x[2], x[2] * y[2])

FracEq(x, y) == x[1] * y[2] = y[1] * x[2]

Init ==
    /\ input_files \in Directories
    /\ \E lens \in {<<DefaultMinLen, DefaultMaxLen>>, <<LowMinLen, HighMaxLen>>} :
          /\ min_len = lens[1]
          /\ max_len = lens[2]
    /\ max_sentences \in 0..MaxCap
    /\ pc = "files"
    /\ MainInit
    /\ ManglerInit
    /\ tokenized = <<>>
    /\ LocalsInit
    /\ ObservedInit
    /\ fpc = "off"

\* for input_file in sorted(input_files):
\*     dataset = DataMangler(input_file, args.min_len, args.max_len, args.max_sentences)
\* and the first step of predict_iterator, counter = 0
LoadFile ==
    /\ pc = "files"
    /\ fi < Len(input_files)
    /\ fi' = fi + 1
    /\ sentences' \in read_sentences(input_files[fi + 1], min_len, max_len)
    /\ max_eval_sentences' = max_sentences
    /\ si' = 0
    /\ counter' = 0
    /\ pc' = "sentences"
    /\ records' = 0
    /\ oracle_calls' = 0
    /\ file_correct' = 0
    /\ file_total' = 0
    /\ UNCHANGED <<locals, fpc, input_files, min_len, max_len, max_sentences,
                   correct_subwords, total_subwords, total_accuracy, accuracy,
                   final_accuracy, submitted, outcome, own>>

Untouched == <<tokenized, glued, mask_index, masked_sentence, predicted, supplied,
               unmasked, fpc, sentences, max_eval_sentences, input_files, min_len,
               max_len, max_sentences, fi, total_accuracy, accuracy, final_accuracy, own>>

\* The body of the loop of predict_iterator runs from "for sentence in
\* self.sentences" to the next one in one step.  Its locals are assigned
\* again before they are read in the next iteration, so the state keeps of
\* them only what leaves the iteration: the record's two counts, and as
\* outcome how the iteration ended.
\*
\* One sentence whose random_mask returns None: continue.
Refused ==
    /\ pc = "sentences"
    /\ si < Len(sentences)
    /\ LET tokenized_sentence == Tokenize(sentences[si + 1])
           glued_words == glue_tokenized(tokenized_sentence).words
       IN  \E mask \in random_mask(glued_words) : mask.isNone
    /\ outcome' = "refused"
    /\ si' = si + 1
    /\ UNCHANGED <<correct_, total_, counter, correct_subwords, total_subwords, pc,
                   records, oracle_calls, submitted, file_correct, file_total>>
    /\ UNCHANGED Untouched

\* One sentence for which predict_masked returns None ("if not predicted"):
\* continue.
OracleFailed ==
    /\ pc = "sentences"
    /\ si < Len(sentences)
    /\ LET tokenized_sentence == Tokenize(sentences[si + 1])
           glued_words == glue_tokenized(tokenized_sentence).words
       IN  \E mask \in random_mask(glued_words) :
              /\ ~mask.isNone
              /\ LET masked == mask_sent(glued_words, mask.list)
                 IN  /\ submitted' = Len(oracle_input(masked))
                     /\ \E answer \in predict_masked(masked) :
                           answer.isNone \/ Len(answer.list) = 0
    /\ oracle_calls' = oracle_calls + 1
    /\ outcome' = "failed"
    /\ si' = si + 1
    /\ UNCHANGED <<correct_, total_, counter, correct_subwords, total_subwords, pc,
                   records, file_correct, file_total>>
    /\ UNCHANGED Untouched

\* One sentence that reaches the yield: the record is built (compare_subwords
\* on a copy, the sum, unmask_sent on predicted itself), main adds it to its
\* counters, and the generator goes on with counter += 1 and the test of
\* max_eval_sentences.  An IndexError raised while the record is built ends
\* the run.
Scored ==
    /\ pc = "sentences"
    /\ si < Len(sentences)
    /\ LET tokenized_sentence == Tokenize(sentences[si + 1])
           glued_words == glue_tokenized(tokenized_sentence).words
       IN  \E mask \in random_mask(glued_words) :
              /\ ~mask.isNone
              /\ LET masked == mask_sent(glued_words, mask.list)
                 IN  /\ submitted' = Len(oracle_input(masked))
                     /\ \E answer \in predict_masked(masked) :
                           /\ ~answer.isNone
                           /\ Len(answer.list) > 0
                           /\ LET compared == compare_subwords(glued_words, answer.list,
                                                               mask.list)
                                  display  == unmask_sent(glued_words, mask.list,
                                                          answer.list)
                              IN  IF compared.raised \/ display.raised
                                  THEN /\ outcome' = "raised"
                                       /\ pc' = "IndexError"
                                       /\ UNCHANGED <<correct_, total_, si, counter,
                                                      correct_subwords, total_subwords,
                                                      records, file_correct, file_total>>
                                  ELSE /\ outcome' = "scored"
                                       /\ correct_' = compared.correct
                                       /\ total_' = total_masked(glued_words, mask.list)
                                       /\ records' = records + 1
                                       /\ correct_subwords' = correct_subwords + correct_'
                                       /\ total_subwords' = total_subwords + total_'
                                       /\ file_correct' = file_correct + correct_'
                                       /\ file_total' = file_total + total_'
                                       /\ si' = si + 1
                                       /\ counter' = counter + 1
                                       /\ pc' = IF /\ max_eval_sentences # 0
                                                   /\ counter' > max_eval_sentences
                                                THEN "aggregate" ELSE "sentences"
    /\ oracle_calls' = oracle_calls + 1
    /\ UNCHANGED Untouched

\* The for loop of predict_iterator is exhausted.
Exhausted ==
    /\ pc = "sentences"
    /\ si = Len(sentences)
    /\ pc' = "aggregate"
    /\ UNCHANGED <<locals, fpc, mangler, input_files, min_len, max_len, max_sentences,
                   fi, correct_subwords, total_subwords, total_accuracy, accuracy,
                   final_accuracy, observed>>

\* accuracy = correct_subwords / total_subwords; total_accuracy += accuracy
Aggregate ==
    /\ pc = "aggregate"
    /\ IF total_subwords = 0
       THEN /\ pc' = "ZeroDivisionError"
            /\ UNCHANGED <<accuracy, total_accuracy, own>>
       ELSE /\ accuracy' = Frac(correct_subwords, total_subwords)
            /\ total_accuracy' = FracAdd(total_accuracy, accuracy')
            /\ own' = Append(own, <<file_correct, file_total>>)
            /\ pc' = "files"
    /\ UNCHANGED <<locals, fpc, mangler, input_files, min_len, max_len, max_sentences,
                   fi, correct_subwords, total_subwords, final_accuracy, records,
                   oracle_calls, submitted, file_correct, file_total, outcome>>

\* print("Final accuracy:", total_accuracy / len(input_files))
Finish ==
    /\ pc = "files"
    /\ fi = Len(input_files)
    /\ IF Len(input_files) = 0
       THEN /\ pc' = "ZeroDivisionError"
            /\ UNCHANGED final_accuracy
       ELSE /\ final_accuracy' = Frac(total_accuracy[1], total_accuracy[2] * Len(input_files))
            /\ pc' = "done"
    /\ UNCHANGED <<locals, fpc, mangler, input_files, min_len, max_len, max_sentences,
                   fi, correct_subwords, total_subwords, total_accuracy, accuracy,
                   observed>>

Next == LoadFile \/ Refused \/ OracleFailed \/ Scored \/ Exhausted \/ Aggregate \/ Finish

Spec == Init /\ [][Next]_vars

\* ================================================ properties of the helpers
\* 0-based index of the word that the token at position pos belongs to: the
\* words start at the tokens without the continuation marker.
WordOfPos(tokens, pos) ==
    Cardinality({q \in 1..pos : ~StartsWith(tokens[q], CONT)}) - 1

Selected(pos) == InList(WordOfPos(tokenized, pos), mask_index.list)

\* the masked subword positions, and the k-th of them from the left
SelectedPositions == {pos \in 1..Len(tokenized) : Selected(pos)}

KthSelected(k) ==
    CHOOSE pos \in SelectedPositions :
        Cardinality({q \in SelectedPositions : q < pos}) = k - 1

\* the detokenized sentence: the subwords of a word joined without the
\* continuation marker, the words separated by one space
RECURSIVE SurfaceFrom(_, _)
SurfaceFrom(tokens, pos) ==
    IF pos > Len(tokens) THEN <<>>
    ELSE (IF StartsWith(tokens[pos], CONT) THEN SubSeq(tokens[pos], 3, Len(tokens[pos]))
          ELSE IF pos = 1 THEN tokens[pos]
          ELSE SPACE \o tokens[pos])
         \o SurfaceFrom(tokens, pos + 1)

Surface(tokens) == SurfaceFrom(tokens, 1)

Flatten(words) == Join(words, <<>>)

HasMaskedSentence == fpc = "masked"

\* C6, as claimed: mask_sent returns as many tokens as the sentence has
\* subwords, and the token at a position is the mask marker if and only if the
\* position's word is selected, the original subword otherwise; the number of
\* mask markers is the number of subwords of the selected words.
C6_MaskIffSelected ==
    HasMaskedSentence =>
        /\ Len(masked_sentence) = Len(tokenized)
        /\ \A pos \in 1..Len(tokenized) :
              /\ (masked_sentence[pos] = MASK) <=> Selected(pos)
              /\ ~Selected(pos) => masked_sentence[pos] = tokenized[pos]
        /\ Cardinality({pos \in 1..Len(masked_sentence) : masked_sentence[pos] = MASK})
              = Cardinality(SelectedPositions)

\* C6, amended: mask_sent returns as many tokens as the sentence has subwords;
\* the token at a position of a selected word is the mask marker and the token
\* at any other position is the original subword (a mask marker only if the
\* sentence holds one there); the mask markers are those of the selected words
\* and the unselected subwords that are the mask marker themselves.
C6_MaskSent ==
    HasMaskedSentence =>
        /\ Len(masked_sentence) = Len(tokenized)
        /\ \A pos \in 1..Len(tokenized) :
              masked_sentence[pos] = IF Selected(pos) THEN MASK ELSE tokenized[pos]
        /\ Cardinality({pos \in 1..Len(masked_sentence) : masked_sentence[pos] = MASK})
              = Cardinality(SelectedPositions)
                + Cardinality({pos \in 1..Len(tokenized) :
                                  ~Selected(pos) /\ tokenized[pos] = MASK})

\* C6 witness: a two-subword word masked in full next to a word left alone
C6_Witness ==
    /\ fpc = "masked"
    /\ tokenized = <<TokA, TokC, TokA>>
    /\ mask_index.list = <<0>>
    /\ masked_sentence = <<MASK, MASK, TokA>>

\* C7: with one prediction list per masked subword, the k-th list is paired
\* with the k-th masked subword from the left, whatever the order of the
\* selection, a subword counts exactly when its rank-1 candidate is the
\* ground-truth subword, and the pair is (correct, total) with total the number
\* of masked subwords.
C7_Comparator ==
    (fpc = "compared" /\ Len(supplied) = Cardinality(SelectedPositions)) =>
        /\ total_ = Cardinality(SelectedPositions)
        /\ correct_ = Cardinality({k \in 1..Len(supplied) :
                                      supplied[k][1] = tokenized[KthSelected(k)]})
        /\ 0 <= correct_
        /\ correct_ <= total_

\* C7 witness: truth [a, ##c] masked in full, rank-1 predictions [a, *], with
\* ##c only at rank 2 of the first list: the pair is (1, 2)
C7_Witness ==
    /\ fpc = "compared"
    /\ tokenized = <<TokA, TokC>>
    /\ mask_index.list = <<0>>
    /\ supplied = <<Ranked(1), Ranked(3)>>
    /\ correct_ = 1
    /\ total_ = 2

\* the integer nearest to n * PNum / PDen, a half going to the even neighbour
IsRounded(n, k) ==
    LET twice == 2 * (IF PDen * k >= PNum * n THEN PDen * k - PNum * n
                      ELSE PNum * n - PDen * k)
    IN  twice < PDen \/ (twice = PDen /\ k % 2 = 0)

ValidSample(n, k) ==
    /\ ~mask_index.isNone
    /\ Len(mask_index.list) = k
    /\ \A i \in 1..k : mask_index.list[i] \in 0..(n - 1)
    /\ \A i, j \in 1..k : i # j => mask_index.list[i] # mask_index.list[j]

\* C8, as claimed: random_mask on n words refuses when round(n * p) is zero
\* and otherwise returns exactly round(n * p) distinct indices of 0..n-1.
C8_RoundedSampleAnyLength ==
    fpc \in {"refused", "sampled"} =>
        LET n == Len(glued)
        IN  \A k \in 0..n : IsRounded(n, k) =>
                IF k = 0 THEN mask_index.isNone ELSE ValidSample(n, k)

\* C8, amended: on a sentence of at most MaxSeqLen - 2 words random_mask
\* refuses when round(n * p) is zero (3 words at p = 0.15) and otherwise
\* returns exactly round(n * p) distinct indices of 0..n-1 (one index for 7
\* words); a sentence of more words is refused whatever round(n * p) is.
C8_RoundedSample ==
    fpc \in {"refused", "sampled"} =>
        LET n == Len(glued)
        IN  /\ n > MaxSeqLen - 2 => mask_index.isNone
            /\ n <= MaxSeqLen - 2 =>
                  \A k \in 0..n : IsRounded(n, k) =>
                      IF k = 0 THEN mask_index.isNone ELSE ValidSample(n, k)
            /\ n = 3 => mask_index.isNone
            /\ n = 7 => ValidSample(n, 1)

\* C8 witness: a 7-word sentence with one word sampled
C8_Witness ==
    /\ fpc = "sampled"
    /\ Len(glued) = 7
    /\ Len(mask_index.list) = 1

\* C9, as claimed: glue_tokenized completes without error on every token
\* list, a group starts exactly at each token without the continuation marker,
\* no group is empty and the groups concatenate to the input.
C9_GlueTotal ==
    fpc # "glue" =>
        /\ fpc # "glue_raised"
        /\ Flatten(glued) = tokenized
        /\ \A w \in 1..Len(glued) : Len(glued[w]) > 0
        /\ Len(glued) = Cardinality({q \in 1..Len(tokenized) :
                                        ~StartsWith(tokenized[q], CONT)})
        /\ \A w \in 1..Len(glued) : \A j \in 1..Len(glued[w]) :
              StartsWith(glued[w][j], CONT) <=> j > 1

\* the prediction lists whose rank-1 candidates are the masked subwords
TruePredictions ==
    /\ Len(supplied) = Cardinality(SelectedPositions)
    /\ \A k \in 1..Len(supplied) : supplied[k][1] = tokenized[KthSelected(k)]

\* C10: unmasking with the true subwords as rank-1 predictions consumes the
\* whole prediction list and, once the boundary markers are stripped, gives the
\* detokenized sentence; the text holds no doubled marker and no marker pair
\* around a space.
C10_UnmaskRoundTrip ==
    (fpc \in {"unmasked", "unmask_raised"} /\ TruePredictions) =>
        /\ fpc = "unmasked"
        /\ predicted.list = <<>>
        /\ Replace(unmasked.text, MARK, <<>>) = Surface(tokenized)
        /\ \A i \in 1..Len(unmasked.text) :
              /\ i + 3 <= Len(unmasked.text) =>
                    SubSeq(unmasked.text, i, i + 3) # MARK \o MARK
              /\ i + 4 <= Len(unmasked.text) =>
                    SubSeq(unmasked.text, i, i + 4) # MARK \o SPACE \o MARK

\* C10 witness: a single-subword word and the two-subword word next to it,
\* both masked and predicted truly
C10_Witness ==
    /\ fpc = "unmasked"
    /\ tokenized = <<TokA, TokA, TokC>>
    /\ mask_index.list = <<1, 0>>
    /\ TruePredictions
    /\ unmasked.text = MARK \o <<"a", " ", "a", "c">> \o MARK

\* ================================================ properties of the driver
\* the sum of the files' own accuracies correct / total
RECURSIVE OwnSum(_, _)
OwnSum(list, k) ==
    IF k > Len(list) THEN <<0, 1>>
    ELSE FracAdd(Frac(list[k][1], list[k][2]), OwnSum(list, k + 1))

OwnMean(list) == LET sum == OwnSum(list, 1) IN Frac(sum[1], sum[2] * Len(list))

\* C1, as claimed: the accuracy computed after a file is exhausted is that
\* file's own correct / total, and the final figure is the mean of the files'
\* own accuracies.
C1_PerFileMean ==
    /\ (Len(own) > 0 /\ own[Len(own)][2] > 0) => FracEq(accuracy, own[Len(own)])
    /\ (pc = "done" /\ \A k \in 1..Len(own) : own[k][2] > 0) =>
           FracEq(final_accuracy, OwnMean(own))

\* C2, as claimed: no token list given to the model, start and end markers
\* included, has more than MaxSeqLen tokens.
C2_SubmittedWithinLimit == submitted <= MaxSeqLen

\* C3, as claimed: with max_sentences = N > 0 predict_iterator yields at most
\* N records for a file.
C3_CapRespected == max_eval_sentences > 0 => records <= max_eval_sentences

\* C4, as claimed: no run divides by zero.
C4_NoZeroDivision == pc # "ZeroDivisionError"

\* C5, as claimed: every sentence the loop takes ends skipped or scored; a
\* skipped one (refused by random_mask, or failed by the oracle) yields no
\* record, leaves the counters alone and the loop goes on; any other yields
\* exactly one record after exactly one oracle call.
C5_SkippedOrScored ==
    [][(pc = "sentences" /\ si < Len(sentences)) =>
          /\ si' = si + 1
          /\ \/ /\ outcome' \in {"refused", "failed"}
                /\ records' = records
                /\ counter' = counter
                /\ correct_subwords' = correct_subwords
                /\ total_subwords' = total_subwords
                /\ oracle_calls' = IF outcome' = "refused" THEN oracle_calls
                                   ELSE oracle_calls + 1
                /\ pc' = "sentences"
             \/ /\ outcome' = "scored"
                /\ records' = records + 1
                /\ oracle_calls' = oracle_calls + 1]_vars

====
